---- MODULE Spec2Model ----
(***************************************************************************)
(* hello_bevy: three Person entities, a repeating two-second GreetTimer,   *)
(* one Startup system (add_people) and two chained Update systems          *)
(* (update_people, greet_people).                                          *)
(*                                                                         *)
(* Time is counted in whole seconds.  The loops of the two Update systems  *)
(* take one step per iteration, so the ordering of the two systems inside  *)
(* a tick is decided by the chain constraint and by nothing else.          *)
(***************************************************************************)
EXTENDS Integers, Sequences, FiniteSets, TLC

VARIABLES
    phase,            \* schedule being run: "Startup", "Update", or "Idle" between schedules
    pc,               \* per system: "waiting", "running" or "done" in its schedule run
    iter,             \* per Update system: position of its `for` loop in the query result
    store,            \* the world's entities in spawn order: [person, name]
    commands,         \* Commands queue: bundles spawned but not yet applied
    timer,            \* the GreetTimer resource
    time_delta,       \* Res<Time>: time.delta() of the current tick
    out,              \* lines printed to stdout during the current tick
    greeted,          \* entities greet_people printed during the current tick, in order
    scanned,          \* entities update_people visited during the current tick, in order
    pre,              \* the store as it was when the current tick began
    add_people_runs,  \* how many times add_people has run
    tickNo,           \* ticks begun so far, counted up to MaxLog + 1
    deltas,           \* the deltas of the first MaxLog ticks
    total,            \* sum of all deltas fed so far, counted up to TotalCap
    fires,            \* ticks so far on which the timer just finished, up to FiresCap
    sum_mod,          \* sum of all deltas fed so far, modulo the timer's interval
    ticks,            \* ticks begun so far, counted up to TicksCap (where counted)
    world0            \* the world as it was before the first tick (where recorded)

vars == <<phase, pc, iter, store, commands, timer, time_delta, out, greeted,
          scanned, pre, add_people_runs, tickNo, deltas, total, fires,
          sum_mod, ticks, world0>>

-----------------------------------------------------------------------------
(* Bounds of the model *)

MaxDelta == 5         \* largest delta (seconds) the host feeds in one tick
MaxLog == 2           \* how many leading ticks have their delta logged
FiresCap == 2         \* the count of firing ticks saturates here
MaxPeople == 3        \* largest hypothetical store (SpecStore)

Deltas == 0 .. MaxDelta

-----------------------------------------------------------------------------
(* Program data *)

\* Timer::from_seconds(2.0, ..): the interval in seconds
TimerDuration == 2

\* as if the literal compared against had been mistyped
Ziomek_typo == "ziomek"

Ziomek == "Ziomek"
ZiomekRoss == "Ziomek Ross"

Systems == {"add_people", "update_people", "greet_people"}

UpdateSystems == {"update_people", "greet_people"}

\* the counts of elapsed time kept for the claims saturate just above the interval
TotalCap == TimerDuration + 1

\* the count of ticks saturates once it exceeds the largest world
TicksCap == MaxPeople + 1

Min(a, b) == IF a < b THEN a ELSE b

\* bundle (Person, Name(n))
PersonBundle(n) == [person |-> TRUE, name |-> n]

\* as if the third spawn had left out the Person marker
AddPeopleBundles_unmarked ==
    << PersonBundle("Ziomek"), PersonBundle("Mateusz"),
       [person |-> FALSE, name |-> "Adam"] >>

\* the three spawn commands of add_people, in program order
AddPeopleBundles ==
    << PersonBundle("Ziomek"), PersonBundle("Mateusz"), PersonBundle("Adam") >>

\* as if the timer had been built with TimerMode::Once
GreetTimer_once ==
    [ duration |-> TimerDuration,
      mode |-> "Once",
      elapsed |-> 0,
      finished |-> FALSE,
      times_finished_this_tick |-> 0 ]

\* app.insert_resource(GreetTimer(Timer::from_seconds(2.0, TimerMode::Repeating)))
GreetTimer ==
    [ duration |-> TimerDuration,
      mode |-> "Repeating",
      elapsed |-> 0,
      finished |-> FALSE,
      times_finished_this_tick |-> 0 ]

\* as if add_people had been registered under Update like the other two
schedule_of_update_only(s) == "Update"

\* add_systems(Startup, add_people); add_systems(Update, (update_people, greet_people)...)
schedule_of(s) == IF s = "add_people" THEN "Startup" ELSE "Update"

\* as if the tuple had been written (greet_people, update_people).chain()
chain_swapped(a, b) == a = "greet_people" /\ b = "update_people"

\* as if .chain() had been left out
chain_absent(a, b) == FALSE

\* (update_people, greet_people).chain(): a must have completed before b starts
chain_before(a, b) == a = "update_people" /\ b = "greet_people"

\* Query<&Name, With<Person>>: the matching entities (indices into the store), in store order
Query(st) == SelectSeq([i \in 1 .. Len(st) |-> i], LAMBDA i : st[i].person)

\* as if the format string had lost its exclamation mark
Hello_plain(n) == "Hello " \o n

\* println!("Hello {}!", name.0)
Hello(n) == "Hello " \o n \o "!"

-----------------------------------------------------------------------------
(* Timer (bevy_time) *)

RECURSIVE Wrap(_, _, _)
\* repeating mode: subtract the interval while the accumulator has reached it
Wrap(e, d, n) ==
    IF d > 0 /\ e >= d THEN Wrap(e - d, d, n + 1) ELSE [elapsed |-> e, times |-> n]

\* as if the boundary were crossed only when the accumulator exceeds the interval
tick_strict(t, d) ==
    LET e == t.elapsed + d IN
    IF e > t.duration
    THEN LET w == Wrap(e, t.duration, 0) IN
         [t EXCEPT !.elapsed = w.elapsed,
                   !.finished = TRUE,
                   !.times_finished_this_tick = w.times]
    ELSE [t EXCEPT !.elapsed = e,
                   !.finished = FALSE,
                   !.times_finished_this_tick = 0]

\* as if a tick that crosses no boundary left the just-finished count as it was
tick_sticky(t, d) ==
    LET e == t.elapsed + d IN
    IF e >= t.duration
    THEN LET w == Wrap(e, t.duration, 0) IN
         [t EXCEPT !.elapsed = w.elapsed,
                   !.finished = TRUE,
                   !.times_finished_this_tick = w.times]
    ELSE [t EXCEPT !.elapsed = e, !.finished = FALSE]

\* as if crossing the boundary reset the accumulator to zero
tick_reset(t, d) ==
    LET e == t.elapsed + d IN
    IF e >= t.duration
    THEN [t EXCEPT !.elapsed = 0,
                   !.finished = TRUE,
                   !.times_finished_this_tick = Wrap(e, t.duration, 0).times]
    ELSE [t EXCEPT !.elapsed = e,
                   !.finished = FALSE,
                   !.times_finished_this_tick = 0]

\* Timer::tick(delta)
tick(t, d) ==
    IF t.mode = "Once" /\ t.finished
    THEN [t EXCEPT !.times_finished_this_tick = 0]
    ELSE LET e == t.elapsed + d IN
         IF e >= t.duration
         THEN IF t.mode = "Repeating"
              THEN LET w == Wrap(e, t.duration, 0) IN
                   [t EXCEPT !.elapsed = w.elapsed,
                             !.finished = TRUE,
                             !.times_finished_this_tick = w.times]
              ELSE [t EXCEPT !.elapsed = t.duration,
                             !.finished = TRUE,
                             !.times_finished_this_tick = 1]
         ELSE [t EXCEPT !.elapsed = e,
                        !.finished = FALSE,
                        !.times_finished_this_tick = 0]

\* Timer::just_finished()
just_finished(t) == t.times_finished_this_tick > 0

\* as if the `if` around the loop had been left out
should_greet_always(t) == TRUE

\* if greet_timer.0.tick(time.delta()).just_finished()
should_greet(t) == just_finished(t)

-----------------------------------------------------------------------------
(* Scheduler *)

\* a system may start when its schedule is running, it has not run yet in this
\* run of the schedule, and everything chained before it has completed
CanStart(s) ==
    /\ phase = schedule_of(s)
    /\ pc[s] = "waiting"
    /\ \A p \in Systems : chain_before(p, s) => pc[p] = "done"

hist == <<tickNo, deltas, total, fires>>

\* The host starts a tick: Time is advanced by the delta and the Update schedule begins.
TickBegin(record, count) ==
    /\ phase = "Idle"
    /\ \E d \in Deltas :
         /\ time_delta' = d
         /\ tickNo' = IF record THEN Min(tickNo + 1, MaxLog + 1) ELSE tickNo
         /\ deltas' = IF record /\ Len(deltas) < MaxLog THEN Append(deltas, d) ELSE deltas
         /\ total' = IF record THEN Min(total + d, TotalCap) ELSE total
         /\ sum_mod' = IF record THEN (sum_mod + d) % TimerDuration ELSE sum_mod
    /\ ticks' = IF count THEN Min(ticks + 1, TicksCap) ELSE ticks
    /\ phase' = "Update"
    /\ pc' = [s \in Systems |-> IF schedule_of(s) = "Update" THEN "waiting" ELSE pc[s]]
    /\ iter' = [s \in UpdateSystems |-> 0]
    /\ pre' = store
    /\ out' = <<>>
    /\ greeted' = <<>>
    /\ scanned' = <<>>
    /\ UNCHANGED <<store, commands, timer, add_people_runs, fires, world0>>

\* End of a schedule run: every system of the schedule has completed; the queued
\* commands are applied to the world.
ScheduleEnd ==
    /\ phase \in {"Startup", "Update"}
    /\ \A s \in Systems : schedule_of(s) = phase => pc[s] = "done"
    /\ store' = store \o commands
    /\ commands' = <<>>
    /\ phase' = "Idle"
    /\ world0' = IF phase = "Startup" THEN store \o commands ELSE world0
    /\ UNCHANGED <<pc, iter, timer, time_delta, out, greeted, scanned, pre,
                   add_people_runs, hist, sum_mod, ticks>>

-----------------------------------------------------------------------------
(* Systems *)

add_people ==
    /\ CanStart("add_people")
    /\ commands' = commands \o AddPeopleBundles
    /\ add_people_runs' = add_people_runs + 1
    /\ pc' = [pc EXCEPT !["add_people"] = "done"]
    /\ UNCHANGED <<phase, iter, store, timer, time_delta, out, greeted, scanned, pre, hist, sum_mod, ticks, world0>>

\* update_people is entered: `for mut name in &mut query` starts at the first match
update_people_begin ==
    /\ CanStart("update_people")
    /\ pc' = [pc EXCEPT !["update_people"] = "running"]
    /\ iter' = [iter EXCEPT !["update_people"] = 1]
    /\ UNCHANGED <<phase, store, commands, timer, time_delta, out, greeted, scanned,
                   pre, add_people_runs, hist, sum_mod, ticks, world0>>

\* as if the loop body also printed the name it visits
update_people_next_printing ==
    /\ pc["update_people"] = "running"
    /\ iter["update_people"] <= Len(Query(store))
    /\ LET e == Query(store)[iter["update_people"]] IN
         /\ scanned' = Append(scanned, e)
         /\ out' = Append(out, Hello(store[e].name))
         /\ IF store[e].name = Ziomek
            THEN /\ store' = [store EXCEPT ![e].name = ZiomekRoss]
                 /\ pc' = [pc EXCEPT !["update_people"] = "done"]
                 /\ iter' = iter
            ELSE /\ store' = store
                 /\ pc' = pc
                 /\ iter' = [iter EXCEPT !["update_people"] = @ + 1]
    /\ UNCHANGED <<phase, commands, timer, time_delta, greeted, pre,
                   add_people_runs, hist, sum_mod, ticks, world0>>

\* as if the comparison had been written != instead of ==
update_people_next_inverted ==
    /\ pc["update_people"] = "running"
    /\ iter["update_people"] <= Len(Query(store))
    /\ LET e == Query(store)[iter["update_people"]] IN
         /\ scanned' = Append(scanned, e)
         /\ IF store[e].name # Ziomek
            THEN /\ store' = [store EXCEPT ![e].name = ZiomekRoss]
                 /\ pc' = [pc EXCEPT !["update_people"] = "done"]
                 /\ iter' = iter
            ELSE /\ store' = store
                 /\ pc' = pc
                 /\ iter' = [iter EXCEPT !["update_people"] = @ + 1]
    /\ UNCHANGED <<phase, commands, timer, time_delta, out, greeted, pre,
                   add_people_runs, hist, sum_mod, ticks, world0>>

\* as if the `break` had been left out: rename and go on to the next match
update_people_next_no_break ==
    /\ pc["update_people"] = "running"
    /\ iter["update_people"] <= Len(Query(store))
    /\ LET e == Query(store)[iter["update_people"]] IN
         /\ scanned' = Append(scanned, e)
         /\ store' = IF store[e].name = Ziomek
                     THEN [store EXCEPT ![e].name = ZiomekRoss]
                     ELSE store
    /\ iter' = [iter EXCEPT !["update_people"] = @ + 1]
    /\ UNCHANGED <<phase, pc, commands, timer, time_delta, out, greeted, pre,
                   add_people_runs, hist, sum_mod, ticks, world0>>

\* one iteration of the loop body: rename and break, or go on to the next match
update_people_next ==
    /\ pc["update_people"] = "running"
    /\ iter["update_people"] <= Len(Query(store))
    /\ LET e == Query(store)[iter["update_people"]] IN
         /\ scanned' = Append(scanned, e)
         /\ IF store[e].name = Ziomek
            THEN /\ store' = [store EXCEPT ![e].name = ZiomekRoss]
                 /\ pc' = [pc EXCEPT !["update_people"] = "done"]
                 /\ iter' = iter
            ELSE /\ store' = store
                 /\ pc' = pc
                 /\ iter' = [iter EXCEPT !["update_people"] = @ + 1]
    /\ UNCHANGED <<phase, commands, timer, time_delta, out, greeted, pre,
                   add_people_runs, hist, sum_mod, ticks, world0>>

\* the iterator is exhausted without a match
update_people_end ==
    /\ pc["update_people"] = "running"
    /\ iter["update_people"] > Len(Query(store))
    /\ pc' = [pc EXCEPT !["update_people"] = "done"]
    /\ UNCHANGED <<phase, iter, store, commands, timer, time_delta, out, greeted,
                   scanned, pre, add_people_runs, hist, sum_mod, ticks, world0>>

\* greet_people is entered: the timer is ticked with time.delta(); the loop is
\* entered only if the timer just finished
greet_people_begin ==
    /\ CanStart("greet_people")
    /\ timer' = tick(timer, time_delta)
    /\ fires' = IF just_finished(timer') THEN Min(fires + 1, FiresCap) ELSE fires
    /\ IF should_greet(timer')
       THEN /\ pc' = [pc EXCEPT !["greet_people"] = "running"]
            /\ iter' = [iter EXCEPT !["greet_people"] = 1]
       ELSE /\ pc' = [pc EXCEPT !["greet_people"] = "done"]
            /\ iter' = iter
    /\ UNCHANGED <<phase, store, commands, time_delta, out, greeted, scanned, pre,
                   add_people_runs, tickNo, deltas, total, sum_mod, ticks, world0>>

\* as if the loop ran over the query result back to front
greet_people_next_reversed ==
    /\ pc["greet_people"] = "running"
    /\ iter["greet_people"] <= Len(Query(store))
    /\ LET e == Query(store)[Len(Query(store)) + 1 - iter["greet_people"]] IN
         /\ out' = Append(out, Hello(store[e].name))
         /\ greeted' = Append(greeted, e)
    /\ iter' = [iter EXCEPT !["greet_people"] = @ + 1]
    /\ UNCHANGED <<phase, pc, store, commands, timer, time_delta, scanned, pre,
                   add_people_runs, hist, sum_mod, ticks, world0>>

\* one iteration of `for name in &query`: print the greeting
greet_people_next ==
    /\ pc["greet_people"] = "running"
    /\ iter["greet_people"] <= Len(Query(store))
    /\ LET e == Query(store)[iter["greet_people"]] IN
         /\ out' = Append(out, Hello(store[e].name))
         /\ greeted' = Append(greeted, e)
    /\ iter' = [iter EXCEPT !["greet_people"] = @ + 1]
    /\ UNCHANGED <<phase, pc, store, commands, timer, time_delta, scanned, pre,
                   add_people_runs, hist, sum_mod, ticks, world0>>

\* the iterator is exhausted
greet_people_end ==
    /\ pc["greet_people"] = "running"
    /\ iter["greet_people"] > Len(Query(store))
    /\ pc' = [pc EXCEPT !["greet_people"] = "done"]
    /\ UNCHANGED <<phase, iter, store, commands, timer, time_delta, out, greeted,
                   scanned, pre, add_people_runs, hist, sum_mod, ticks, world0>>

-----------------------------------------------------------------------------
(* The program *)

Init ==
    /\ phase = "Startup"
    /\ pc = [s \in Systems |-> "waiting"]
    /\ iter = [s \in UpdateSystems |-> 0]
    /\ store = <<>>
    /\ commands = <<>>
    /\ timer = GreetTimer
    /\ time_delta = 0
    /\ out = <<>>
    /\ greeted = <<>>
    /\ scanned = <<>>
    /\ pre = <<>>
    /\ add_people_runs = 0
    /\ tickNo = 0
    /\ deltas = <<>>
    /\ total = 0
    /\ fires = 0
    /\ sum_mod = 0
    /\ ticks = 0
    /\ world0 = <<>>

Next ==
    \/ add_people
    \/ ScheduleEnd
    \/ TickBegin(TRUE, TRUE)
    \/ update_people_begin
    \/ update_people_next
    \/ update_people_end
    \/ greet_people_begin
    \/ greet_people_next
    \/ greet_people_end

Spec == Init /\ [][Next]_vars

-----------------------------------------------------------------------------
(* The Update schedule over a hypothetical world *)

\* names a hypothetical entity may carry
Names == {"Ziomek", "Mateusz", "Adam", "Ziomek Ross"}

\* worlds of up to MaxPeople entities, with or without the Person marker
Worlds ==
    UNION { [1 .. n -> [person : BOOLEAN, name : Names]] : n \in 0 .. MaxPeople }

\* Startup is over and has left some world behind; the timer is as built
InitStore ==
    /\ phase = "Idle"
    /\ pc = [s \in Systems |-> IF s = "add_people" THEN "done" ELSE "waiting"]
    /\ iter = [s \in UpdateSystems |-> 0]
    /\ store \in Worlds
    /\ commands = <<>>
    /\ timer = GreetTimer
    /\ time_delta = 0
    /\ out = <<>>
    /\ greeted = <<>>
    /\ scanned = <<>>
    /\ pre = store
    /\ add_people_runs = 1
    /\ tickNo = 0
    /\ deltas = <<>>
    /\ total = 0
    /\ fires = 0
    /\ sum_mod = 0
    /\ ticks = 0
    /\ world0 = <<>>

NextStore ==
    \/ ScheduleEnd
    \/ TickBegin(FALSE, FALSE)
    \/ update_people_begin
    \/ update_people_next
    \/ update_people_end
    \/ greet_people_begin
    \/ greet_people_next
    \/ greet_people_end

SpecStore == InitStore /\ [][NextStore]_vars

-----------------------------------------------------------------------------
(* The Update schedule over worlds of "Ziomek"s, with the ticks counted *)

\* worlds whose entities are named "Ziomek" or "Adam", with or without the marker
RenameWorlds ==
    { w \in Worlds : \A e \in 1 .. Len(w) : w[e].name \in {"Ziomek", "Adam"} }

InitRename ==
    /\ phase = "Idle"
    /\ pc = [s \in Systems |-> IF s = "add_people" THEN "done" ELSE "waiting"]
    /\ iter = [s \in UpdateSystems |-> 0]
    /\ store \in RenameWorlds
    /\ commands = <<>>
    /\ timer = GreetTimer
    /\ time_delta = 0
    /\ out = <<>>
    /\ greeted = <<>>
    /\ scanned = <<>>
    /\ pre = store
    /\ add_people_runs = 1
    /\ tickNo = 0
    /\ deltas = <<>>
    /\ total = 0
    /\ fires = 0
    /\ sum_mod = 0
    /\ ticks = 0
    /\ world0 = store

NextRename ==
    \/ ScheduleEnd
    \/ TickBegin(FALSE, TRUE)
    \/ update_people_begin
    \/ update_people_next
    \/ update_people_end
    \/ greet_people_begin
    \/ greet_people_next
    \/ greet_people_end

SpecRename == InitRename /\ [][NextRename]_vars

-----------------------------------------------------------------------------
(* The program with a host that keeps ticking and whose clock keeps advancing *)

\* a tick on which time has advanced
PositiveTick == TickBegin(FALSE, FALSE) /\ time_delta' > 0

NextLive ==
    \/ add_people
    \/ ScheduleEnd
    \/ TickBegin(FALSE, FALSE)
    \/ update_people_begin
    \/ update_people_next
    \/ update_people_end
    \/ greet_people_begin
    \/ greet_people_next
    \/ greet_people_end

\* every schedule run is carried to its end and followed by another tick, and
\* ticks with a positive delta keep coming
SpecLive ==
    /\ Init
    /\ [][NextLive]_vars
    /\ WF_vars(NextLive)
    /\ SF_vars(PositiveTick)

-----------------------------------------------------------------------------
(* Properties *)

\* the Update schedule has run to its end and the next tick has not begun
TickEnded ==
    /\ phase = "Idle"
    /\ \A s \in UpdateSystems : pc[s] = "done"

\* entities that were Person-marked and named "Ziomek" when the tick began
ZiomeksBefore == { e \in 1 .. Len(pre) : pre[e].person /\ pre[e].name = Ziomek }

\* C1: an entity named "Ziomek" when a tick begins is named "Ziomek Ross" when the
\* tick ends, and every greeting printed for it in that tick reads
\* "Hello Ziomek Ross!"; on a tick that crosses the timer boundary it is greeted.
C1_MutationBeforeGreeting ==
    \A e \in ZiomeksBefore :
        /\ TickEnded => store[e].name = "Ziomek Ross"
        /\ \A k \in 1 .. Len(greeted) : greeted[k] = e => out[k] = "Hello Ziomek Ross!"
        /\ TickEnded /\ just_finished(timer) => \E k \in 1 .. Len(greeted) : greeted[k] = e

C1_Witness ==
    /\ TickEnded
    /\ ZiomeksBefore = {1}
    /\ just_finished(timer)
    /\ greeted[1] = 1
    /\ out[1] = "Hello Ziomek Ross!"

\* a step taken by Update system s inside a tick
StepOf(s) ==
    /\ phase = "Update"
    /\ phase' = "Update"
    /\ pc[s] # pc'[s] \/ iter[s] # iter'[s]

\* C2: inside a tick every step of greet_people is taken after update_people has
\* completed, and every step of update_people is taken before greet_people has begun.
C2_ChainOrder ==
    [][ /\ StepOf("greet_people") =>
             /\ pc["update_people"] = "done"
             /\ pc'["update_people"] = "done"
             /\ store' = store
        /\ StepOf("update_people") =>
             /\ pc["greet_people"] = "waiting"
             /\ pc'["greet_people"] = "waiting" ]_vars

C2_Witness ==
    /\ phase = "Update"
    /\ pc["update_people"] = "done"
    /\ pc["greet_people"] = "running"
    /\ iter["greet_people"] = 2
    /\ scanned = <<1>>
    /\ store[1].name = "Ziomek Ross"

\* C3: add_people runs exactly once; while the Startup schedule has not ended no
\* Update system has been invoked; from the end of Startup on, the three spawned
\* entities are in the store and add_people has run once and never again.
C3_StartupOnce ==
    /\ add_people_runs <= 1
    /\ phase = "Startup" =>
          /\ tickNo = 0
          /\ \A s \in UpdateSystems : pc[s] = "waiting" /\ iter[s] = 0
    /\ phase # "Startup" =>
          /\ add_people_runs = 1
          /\ pc["add_people"] = "done"
          /\ commands = <<>>
          /\ Len(store) = 3
          /\ \A e \in 1 .. 3 : store[e].person
    /\ phase = "Idle" /\ tickNo = 0 => store = AddPeopleBundles

C3_Witness ==
    /\ phase = "Update"
    /\ tickNo = 2
    /\ pc["update_people"] = "running"
    /\ add_people_runs = 1
    /\ Len(store) = 3

\* the lines one pass over the Person entities of st prints
GreetingLines(st) ==
    [k \in 1 .. Len(Query(st)) |-> "Hello " \o st[Query(st)[k]].name \o "!"]

\* C4: nothing is printed in a tick before greet_people runs; once it has run, the
\* tick's output is one line "Hello <name>!" per Person entity, each entity once, if
\* the timer just finished on this tick's delta, and is empty otherwise.
C4_GreetIffJustFinished ==
    /\ Len(out) = Len(greeted)
    /\ phase = "Update" /\ pc["greet_people"] = "waiting" => out = <<>>
    /\ pc["greet_people"] = "done" =>
          IF just_finished(timer)
          THEN greeted = Query(store) /\ out = GreetingLines(store)
          ELSE out = <<>>

C4_Witness ==
    /\ TickEnded
    /\ timer.times_finished_this_tick >= 2
    /\ greeted = <<1, 2, 3>>
    /\ out = <<"Hello Ziomek Ross!", "Hello Mateusz!", "Hello Adam!">>

\* C5: with deltas [1, 1] fed to the program, tick 1 prints nothing and ends with
\* the first entity renamed, and tick 2 prints the three greetings in spawn order.
C5_EndToEnd ==
    /\ tickNo = 1 /\ deltas = <<1>> => out = <<>>
    /\ tickNo = 1 /\ deltas = <<1>> /\ TickEnded =>
          /\ ~just_finished(timer)
          /\ store[1].name = "Ziomek Ross"
          /\ store[2].name = "Mateusz"
          /\ store[3].name = "Adam"
    /\ tickNo = 2 /\ deltas = <<1, 1>> /\ TickEnded =>
          out = <<"Hello Ziomek Ross!", "Hello Mateusz!", "Hello Adam!">>

C5_Witness ==
    /\ tickNo = 2
    /\ deltas = <<1, 1>>
    /\ TickEnded
    /\ Len(out) = 3

\* C6: from accumulator 0, when the deltas fed so far sum to exactly the interval,
\* the timer has just finished on exactly one of those ticks.
C6_ExactSumFiresOnce ==
    TickEnded /\ total = TimerDuration => fires = 1

\* zero deltas before and after the crossing tick
C6_Witness ==
    /\ TickEnded
    /\ total = TimerDuration
    /\ fires = 1
    /\ tickNo = MaxLog + 1
    /\ deltas[1] = 0
    /\ time_delta = 0

\* the step in which greet_people ticks the timer
TimerTicked ==
    /\ phase = "Update"
    /\ pc["greet_people"] = "waiting"
    /\ pc'["greet_people"] # "waiting"

\* C7: a tick with delta d >= 2 * interval from accumulator 0 sets just_finished and
\* leaves the accumulator at d mod interval.
C7_LargeDelta ==
    [][ TimerTicked /\ timer.elapsed = 0 /\ time_delta >= 2 * TimerDuration =>
           /\ just_finished(timer')
           /\ timer'.elapsed = time_delta % TimerDuration ]_vars

C7_Witness ==
    /\ TickEnded
    /\ tickNo = 1
    /\ time_delta = 2 * TimerDuration + 1
    /\ just_finished(timer)
    /\ timer.elapsed = 1

\* the first Person entity of st named "Ziomek", 0 if there is none
FirstZiomek(st) ==
    LET Z == { e \in 1 .. Len(st) : st[e].person /\ st[e].name = Ziomek } IN
    IF Z = {} THEN 0 ELSE CHOOSE e \in Z : \A f \in Z : e <= f

\* C8: in one tick update_people changes nothing but the name of the first Person
\* entity named "Ziomek"; any other entity, a second "Ziomek" included, is at the
\* end of the tick as it was at its beginning.
C8_RenamesFirstOnly ==
    /\ Len(store) = Len(pre)
    /\ \A e \in 1 .. Len(pre) :
          /\ e # FirstZiomek(pre) => store[e] = pre[e]
          /\ e = FirstZiomek(pre) /\ pc["update_people"] = "done" =>
                store[e] = [pre[e] EXCEPT !.name = "Ziomek Ross"]

\* an unmarked "Ziomek" comes first, then two Person entities named "Ziomek"
C8_Witness ==
    /\ TickEnded
    /\ Len(pre) = 3
    /\ ~pre[1].person /\ pre[1].name = "Ziomek"
    /\ ZiomeksBefore = {2, 3}
    /\ store[1].name = "Ziomek"
    /\ store[2].name = "Ziomek Ross"
    /\ store[3].name = "Ziomek"

\* C9: after a tick in which accumulator + delta stays below the interval,
\* just_finished is false.
C9_FlagOnlyOnCrossingTick ==
    [][ TimerTicked /\ timer.elapsed + time_delta < TimerDuration =>
           ~just_finished(timer') ]_vars

\* tick 1 crossed the boundary, tick 2 did not
C9_Witness ==
    /\ TickEnded
    /\ tickNo = 2
    /\ deltas = <<2, 1>>
    /\ fires = 1
    /\ ~just_finished(timer)

IsPrefix(a, b) == Len(a) <= Len(b) /\ \A k \in 1 .. Len(a) : a[k] = b[k]

C11_FrameEffects ==
    [][ /\ StepOf("greet_people") =>
             /\ store' = store
             /\ commands' = commands
        /\ StepOf("update_people") =>
             /\ timer' = timer
             /\ out' = out
             /\ Len(store') = Len(store)
             /\ commands' = commands ]_vars

\* a tick in which update_people renamed and greet_people ticked the timer and printed
C11_Witness ==
    /\ TickEnded
    /\ store # pre
    /\ just_finished(timer)
    /\ timer.elapsed = 1
    /\ Len(out) = 3

\* C12: during and after a tick, every Person entity whose name was not exactly
\* "Ziomek" when the tick began ("Ziomek Ross" included) still has that name.
C12_ExactMatchOnly ==
    \A e \in 1 .. Len(pre) :
        pre[e].person /\ pre[e].name # "Ziomek" => store[e].name = pre[e].name

\* a tick that began with the first entity already renamed: the scan passes it by
C12_Witness ==
    /\ TickEnded
    /\ pre[1].name = "Ziomek Ross"
    /\ pre[2].name = "Mateusz"
    /\ pre[3].name = "Adam"
    /\ scanned = <<1, 2, 3>>
    /\ store = pre

RECURSIVE SumSeq(_)
SumSeq(q) == IF q = <<>> THEN 0 ELSE Head(q) + SumSeq(Tail(q))

\* C13: the accumulator is always in 0 .. interval - 1, and once the timer has been
\* ticked with a tick's delta it equals the sum of all deltas fed so far modulo the
\* interval.
C13_AccumulatorIsSumModInterval ==
    /\ timer.elapsed >= 0
    /\ timer.elapsed < TimerDuration
    /\ pc["greet_people"] # "waiting" => timer.elapsed = sum_mod
    /\ pc["greet_people"] # "waiting" /\ tickNo <= MaxLog =>
          timer.elapsed = SumSeq(deltas) % TimerDuration

\* 3 then 1: the second tick fires only because the overshoot of the first was kept
C13_Witness ==
    /\ TickEnded
    /\ tickNo = 2
    /\ deltas = <<3, 1>>
    /\ just_finished(timer)
    /\ fires = 2
    /\ timer.elapsed = 0

\* C14: from the end of Startup on, the store holds the three entities add_people
\* spawned, in spawn order, each with the Person marker and one Name; nothing is
\* waiting to be spawned; the one timer is the repeating two-second timer.
C14_WorldIsFixed ==
    phase # "Startup" =>
       /\ Len(store) = 3
       /\ Len(world0) = 3
       /\ \A e \in 1 .. 3 :
             /\ DOMAIN store[e] = {"person", "name"}
             /\ store[e].person
             /\ store[e].name \in {world0[e].name, "Ziomek Ross"}
       /\ store[1].name \in {"Ziomek", "Ziomek Ross"}
       /\ store[2].name = "Mateusz"
       /\ store[3].name = "Adam"
       /\ commands = <<>>
       /\ timer.duration = 2
       /\ timer.mode = "Repeating"

C14_Witness ==
    /\ TickEnded
    /\ ticks = TicksCap
    /\ Len(store) = 3
    /\ store[1].name = "Ziomek Ross"
    /\ Len(out) = 3

\* C15: the program never prints "Hello Ziomek!"; once the first tick has completed
\* no entity is named "Ziomek"; on every later tick update_people changes nothing.
C15_ZiomekGoneAfterFirstTick ==
    /\ \A k \in 1 .. Len(out) : out[k] # "Hello Ziomek!"
    /\ (ticks = 1 /\ TickEnded) \/ ticks >= 2 =>
          \A e \in 1 .. Len(store) : store[e].name # "Ziomek"
    /\ ticks >= 2 => store = pre

\* a third tick that scans all three entities, changes nothing and greets
C15_Witness ==
    /\ TickEnded
    /\ ticks = 3
    /\ scanned = <<1, 2, 3>>
    /\ store = pre
    /\ just_finished(timer)
    /\ out[1] = "Hello Ziomek Ross!"

\* the Person entities named "Ziomek" before the first tick, in spawn order
Ziomeks0 ==
    SelectSeq([i \in 1 .. Len(world0) |-> i],
              LAMBDA e : world0[e].person /\ world0[e].name = "Ziomek")

\* C16: with k Person entities named "Ziomek" before the first tick, after tick j
\* the first min(j, k) of them in spawn order are named "Ziomek Ross", the others
\* are still named "Ziomek", and every other entity is as it was; so after k ticks
\* none is left, whatever the timer did.
C16_OneRenamePerTick ==
    ticks = 0 \/ TickEnded =>
       /\ Len(store) = Len(world0)
       /\ \A i \in 1 .. Len(Ziomeks0) :
             store[Ziomeks0[i]] =
                [world0[Ziomeks0[i]] EXCEPT
                    !.name = IF i <= ticks THEN "Ziomek Ross" ELSE "Ziomek"]
       /\ \A e \in 1 .. Len(world0) :
             ~(world0[e].person /\ world0[e].name = "Ziomek") => store[e] = world0[e]
       /\ ticks >= Len(Ziomeks0) =>
             \A e \in 1 .. Len(store) : ~(store[e].person /\ store[e].name = "Ziomek")

\* three "Ziomek"s, two ticks, and the timer has never fired
C16_Witness ==
    /\ TickEnded
    /\ ticks = 2
    /\ fires = 0
    /\ Ziomeks0 = <<1, 2, 3>>
    /\ store[1].name = "Ziomek Ross"
    /\ store[2].name = "Ziomek Ross"
    /\ store[3].name = "Ziomek"

\* greet_people has just completed a pass that printed the three greetings
GreetingPrinted ==
    /\ phase = "Update"
    /\ pc["greet_people"] = "done"
    /\ just_finished(timer)
    /\ out = GreetingLines(store)
    /\ Len(out) = 3

\* C17: with a host that keeps ticking and ticks of positive delta that keep coming,
\* the three greetings are printed again and again: from every state a later tick
\* crosses the timer boundary and greets.
C17_GreetsInfinitelyOften == []<>GreetingPrinted

\* the greeting has been printed on at least FiresCap ticks
C17_Witness ==
    /\ GreetingPrinted
    /\ fires = FiresCap
    /\ store[1].name = "Ziomek Ross"

====
